---- MODULE Spec2Model ----
(***************************************************************************)
(* Font pipeline of the rich-text control: the data-URI loader, the Quill  *)
(* font-attributor registrar, the style injector, the cleanup routine, the *)
(* applyFonts orchestrator (both implementations of the repository) and    *)
(* the mount/unmount effect of CustomRichTextControl.                      *)
(*                                                                         *)
(* Strings the code inspects (URLs, MIME types) are sequences of tokens,   *)
(* so that startsWith, endsWith, includes, split and toLowerCase are       *)
(* computed and not assumed.                                               *)
(***************************************************************************)
EXTENDS Integers, Sequences, FiniteSets, TLC

\* Longest descriptor sequence handed to the pipeline.
MaxFonts == 2

\* Most 0 ms ensureDefaultFont timers pending at once.
MaxTimers == 1

----------------------------------------------------------------------------
(* String primitives of the JavaScript runtime, on token sequences.        *)

StartsWith(s, p) == Len(s) >= Len(p) /\ SubSeq(s, 1, Len(p)) = p

EndsWith(s, p) == Len(s) >= Len(p) /\ SubSeq(s, Len(s) - Len(p) + 1, Len(s)) = p

Includes(s, p) == \E i \in 1..(Len(s) - Len(p) + 1) : SubSeq(s, i, i + Len(p) - 1) = p

LowerToken(t) ==
    CASE t = "CSS" -> "css"
      [] t = "TTF" -> "ttf"
      [] OTHER -> t

ToLowerCase(s) == [i \in 1..Len(s) |-> LowerToken(s[i])]

\* Index of the last occurrence of token sep in s, 0 when there is none.
LastIndexOf(s, sep) ==
    IF \E i \in 1..Len(s) : s[i] = sep
    THEN CHOOSE i \in 1..Len(s) : s[i] = sep /\ \A j \in (i + 1)..Len(s) : s[j] # sep
    ELSE 0

\* s.split(sep).pop(): what follows the last sep, all of s when there is none.
SplitPop(s, sep) == SubSeq(s, LastIndexOf(s, sep) + 1, Len(s))

\* Index of the first occurrence of token sep in s, Len(s) + 1 when none.
IndexOf(s, sep) ==
    IF \E i \in 1..Len(s) : s[i] = sep
    THEN CHOOSE i \in 1..Len(s) : s[i] = sep /\ \A j \in 1..(i - 1) : s[j] # sep
    ELSE Len(s) + 1

\* s.split(sep)[1]: the segment between the first and the second sep.
SplitSecond(s, sep) ==
    LET rest == SubSeq(s, IndexOf(s, sep) + 1, Len(s))
    IN  SubSeq(rest, 1, IndexOf(rest, sep) - 1)

----------------------------------------------------------------------------
(* Font descriptors.                                                       *)

HTTP == <<"http">>
DOT == "."

SystemUrl == <<>>
LocalTtfUrl == <<"/fonts/custom", ".", "ttf">>
LocalWoff2Url == <<"/fonts/custom-bold", ".", "woff2">>
LocalOtfUrl == <<"fonts/brand", ".", "otf">>
GoogleCssUrl == <<"http", "s://", "fonts", ".", "googleapis", ".", "com", "/css?", "family=", "Roboto">>
CdnCssUrl == <<"http", "://cdn/roboto", ".", "CSS">>
RemoteTtfUrl == <<"http", "s://cdn/lato", ".", "TTF">>
RemoteNoExtUrl == <<"http", "s://cdn/fonts/lato">>

FontInfo(name, quillValue, url, cssFamily) ==
    [name |-> name, quillValue |-> quillValue, url |-> url, cssFamily |-> cssFamily]

\* The descriptors the pipeline is exercised with: one system font, three local
\* files of which two share a display name, two CSS-service links that share
\* a quillValue, and two absolute URLs to font files.
FontPool ==
    { FontInfo("Arial", "arial", SystemUrl, "Arial, sans-serif"),
      FontInfo("Custom", "custom-font", LocalTtfUrl, "Custom"),
      FontInfo("Custom", "custom-bold", LocalWoff2Url, "Custom Bold"),
      FontInfo("Brand", "brand", LocalOtfUrl, "Brand"),
      FontInfo("Roboto", "roboto", GoogleCssUrl, "Roboto"),
      FontInfo("Roboto", "roboto", CdnCssUrl, "Roboto, sans-serif"),
      FontInfo("Lato", "lato", RemoteTtfUrl, "Lato"),
      FontInfo("Lato", "lato-raw", RemoteNoExtUrl, "Lato") }

FontSets == UNION { [1..n -> FontPool] : n \in 0..MaxFonts }

\* Descriptor sequences of the direct calls of the DOM functions: no descriptor
\* twice, one local file (the data-URI map is an argument there) and one
\* absolute URL to a font file.
DomFontSets ==
    { fonts \in FontSets :
        /\ \A i, j \in 1..Len(fonts) : fonts[i] = fonts[j] => i = j
        /\ \A i \in 1..Len(fonts) :
              fonts[i].url \notin {LocalWoff2Url, LocalOtfUrl, RemoteNoExtUrl} }

UniqueQuillValues(fonts) ==
    \A i, j \in 1..Len(fonts) : fonts[i].quillValue = fonts[j].quillValue => i = j

UniqueNames(fonts) ==
    \A i, j \in 1..Len(fonts) : fonts[i].name = fonts[j].name => i = j

----------------------------------------------------------------------------
(* getFontMimeTypeFromUrl, and the classification of a descriptor's URL.   *)

getFontMimeTypeFromUrl(url) ==
    LET extension == ToLowerCase(SplitPop(url, DOT))
    IN  CASE extension = <<"ttf">> -> <<"font", "/", "ttf">>
          [] extension = <<"otf">> -> <<"font", "/", "otf">>
          [] extension = <<"woff">> -> <<"font", "/", "woff">>
          [] extension = <<"woff2">> -> <<"font", "/", "woff2">>
          [] extension = <<"eot">> -> <<"application", "/", "vnd.ms-fontobject">>
          [] OTHER -> <<"application", "/", "octet-stream">>

getFontMimeTypeFromUrl_part000(url) ==
    LET extension == ToLowerCase(SplitPop(url, DOT))
    IN  CASE extension = <<"ttf">> -> <<"font", "/", "ttf">>
          [] extension = <<"otf">> -> <<"font", "/", "otf">>
          [] extension = <<"woff">> -> <<"font", "/", "woff">>
          [] extension = <<"woff2">> -> <<"font", "/", "woff2">>
          [] OTHER -> <<"application", "/", "octet-stream">>

isExternalCssLink(font) ==
    /\ StartsWith(font.url, HTTP)
    /\ \/ EndsWith(ToLowerCase(font.url), <<".", "css">>)
       \/ Includes(font.url, <<"family=">>)

isExternalFontFile(font) ==
    /\ StartsWith(font.url, HTTP)
    /\ ~isExternalCssLink(font)
    /\ getFontMimeTypeFromUrl(font.url) # <<"application", "/", "octet-stream">>

isLocalFontFile(font) == font.url # <<>> /\ ~StartsWith(font.url, HTTP)

isGoogleFontsLink(font) ==
    /\ font.url # <<>>
    /\ StartsWith(font.url, HTTP)
    /\ Includes(font.url, <<"fonts", ".", "googleapis", ".", "com">>)

\* fontFormatInCss without the conversion of 'ttf' to 'truetype'
fontFormatInCss_raw(mime) == SplitSecond(mime, "/")

\* format === 'ttf' ? 'truetype' : format, over getFontMimeTypeFromUrl(url).split('/')[1]
fontFormatInCss(mime) ==
    LET format == SplitSecond(mime, "/")
    IN  IF format = <<"ttf">> THEN <<"truetype">> ELSE format

----------------------------------------------------------------------------
(* The document head: a sequence of elements, in insertion order.          *)

styleId == <<"quill-dynamic-font-style">>

linkId(font) == <<"font-link-", font.quillValue>>

createElement(tagName) ==
    [tagName |-> tagName, id |-> <<>>, rel |-> "", href |-> <<>>, innerHTML |-> <<>>]

\* document.getElementById: the index of the first element with this id, or 0.
getElementById(doc, id) ==
    IF \E i \in 1..Len(doc) : doc[i].id = id
    THEN CHOOSE i \in 1..Len(doc) : doc[i].id = id /\ \A j \in 1..(i - 1) : doc[j].id # id
    ELSE 0

\* element.remove() / document.head.removeChild(element)
removeAt(doc, i) == SubSeq(doc, 1, i - 1) \o SubSeq(doc, i + 1, Len(doc))

----------------------------------------------------------------------------
(* The CSS text is the sequence of the rules the template literals emit.   *)

CssRule(rule, key, content, family, src, format) ==
    [rule |-> rule, key |-> key, content |-> content, family |-> family,
     src |-> src, format |-> format]

FontFaceRule(family, src, format) ==
    CssRule("@font-face", "", "", <<"'", family, "'">>, src, format)

\* quillRules with the display name as the font-family
quillRules_byName(font) ==
    << CssRule("picker-label", font.quillValue, font.name, <<font.name>>, <<>>, <<>>),
       CssRule("ql-font", font.quillValue, "", <<font.name>>, <<>>, <<>>) >>

\* fontHelper.ts: font-family: ${font.cssFamily};
quillRules(font) ==
    << CssRule("picker-label", font.quillValue, font.name, <<font.cssFamily>>, <<>>, <<>>),
       CssRule("ql-font", font.quillValue, "", <<font.cssFamily>>, <<>>, <<>>) >>

\* part_000: font-family: '${font.cssFamily}', sans-serif;
quillRules_part000(font) ==
    LET family == <<"'", font.cssFamily, "'", ", sans-serif">>
    IN  << CssRule("picker-label", font.quillValue, font.name, family, <<>>, <<>>),
           CssRule("ql-font", font.quillValue, "", family, <<>>, <<>>) >>

\* loadedFontDataUris[font.name], truthy
hasDataUri(loadedFontDataUris, font) ==
    /\ font.name \in DOMAIN loadedFontDataUris
    /\ loadedFontDataUris[font.name] # <<>>

----------------------------------------------------------------------------
(* injectFontStyles, fontHelper.ts                                         *)

\* injectOne without the getElementById check before the link is created
injectOne_noDedup(font, loadedFontDataUris, st) ==
    LET doc1 ==
            IF isExternalCssLink(font)
            THEN Append(st.doc, [createElement("link") EXCEPT
                                    !.id = linkId(font),
                                    !.rel = "stylesheet",
                                    !.href = font.url])
            ELSE st.doc
    IN  [doc |-> doc1, css |-> st.css \o quillRules(font)]

\* One pass of fonts.forEach: st = [doc, css] before the descriptor.
injectOne(font, loadedFontDataUris, st) ==
    LET doc1 ==
            IF isExternalCssLink(font) /\ getElementById(st.doc, linkId(font)) = 0
            THEN Append(st.doc, [createElement("link") EXCEPT
                                    !.id = linkId(font),
                                    !.rel = "stylesheet",
                                    !.href = font.url])
            ELSE st.doc
        face ==
            IF isExternalCssLink(font) THEN <<>>
            ELSE IF isExternalFontFile(font)
            THEN << FontFaceRule(font.name, font.url,
                                 fontFormatInCss(getFontMimeTypeFromUrl(font.url))) >>
            ELSE IF isLocalFontFile(font) /\ hasDataUri(loadedFontDataUris, font)
            THEN << FontFaceRule(font.name, loadedFontDataUris[font.name],
                                 fontFormatInCss(getFontMimeTypeFromUrl(font.url))) >>
            ELSE <<>>
    IN  [doc |-> doc1, css |-> st.css \o face \o quillRules(font)]

RECURSIVE injectForEach(_, _, _, _)
injectForEach(fonts, i, loadedFontDataUris, st) ==
    IF i > Len(fonts) THEN st
    ELSE injectForEach(fonts, i + 1, loadedFontDataUris,
                       injectOne(fonts[i], loadedFontDataUris, st))

\* style = getElementById(styleId) or a new <style> appended to the head
ensureStyle(doc) ==
    IF getElementById(doc, styleId) = 0
    THEN Append(doc, [createElement("style") EXCEPT !.id = styleId])
    ELSE doc

\* setStyleContent with style.innerHTML += allFontCss
setStyleContent_append(doc, styleAt, after) ==
    [after.doc EXCEPT ![styleAt].innerHTML = @ \o after.css]

\* style.innerHTML = allFontCss, on the element ensureStyle found or created
setStyleContent(doc, styleAt, after) ==
    [after.doc EXCEPT ![styleAt].innerHTML = after.css]

injectFontStyles(fonts, loadedFontDataUris, doc) ==
    LET doc0 == ensureStyle(doc)
        styleAt == getElementById(doc0, styleId)
        after == injectForEach(fonts, 1, loadedFontDataUris, [doc |-> doc0, css |-> <<>>])
    IN  setStyleContent(doc0, styleAt, after)

----------------------------------------------------------------------------
(* injectFontStyles, part_000                                              *)

injectOne_part000(font, loadedFontDataUris, st) ==
    LET doc1 ==
            IF isGoogleFontsLink(font) /\ getElementById(st.doc, linkId(font)) = 0
            THEN Append(st.doc, [createElement("link") EXCEPT
                                    !.id = linkId(font),
                                    !.rel = "stylesheet",
                                    !.href = font.url])
            ELSE st.doc
        face ==
            IF isGoogleFontsLink(font) THEN <<>>
            ELSE IF isLocalFontFile(font) /\ hasDataUri(loadedFontDataUris, font)
            THEN << FontFaceRule(font.cssFamily, loadedFontDataUris[font.name],
                                 fontFormatInCss(getFontMimeTypeFromUrl_part000(font.url))) >>
            ELSE <<>>
    IN  [doc |-> doc1, css |-> st.css \o face \o quillRules_part000(font)]

RECURSIVE injectForEach_part000(_, _, _, _)
injectForEach_part000(fonts, i, loadedFontDataUris, st) ==
    IF i > Len(fonts) THEN st
    ELSE injectForEach_part000(fonts, i + 1, loadedFontDataUris,
                               injectOne_part000(fonts[i], loadedFontDataUris, st))

injectFontStyles_part000(fonts, loadedFontDataUris, doc) ==
    LET doc0 == ensureStyle(doc)
        styleAt == getElementById(doc0, styleId)
        after == injectForEach_part000(fonts, 1, loadedFontDataUris,
                                       [doc |-> doc0, css |-> <<>>])
    IN  setStyleContent(doc0, styleAt, after)

----------------------------------------------------------------------------
(* cleanupFontStyles, both implementations                                 *)

removeById(doc, id) ==
    IF getElementById(doc, id) = 0 THEN doc ELSE removeAt(doc, getElementById(doc, id))

RECURSIVE cleanupForEach(_, _, _)
cleanupForEach(fonts, i, doc) ==
    IF i > Len(fonts) THEN doc
    ELSE cleanupForEach(fonts, i + 1, removeById(doc, linkId(fonts[i])))

\* cleanupFontStyles that removes the style element and leaves the links
cleanupFontStyles_styleOnly(fonts, doc) == removeById(doc, styleId)

cleanupFontStyles(fonts, doc) == cleanupForEach(fonts, 1, removeById(doc, styleId))

RECURSIVE cleanupForEach_part000(_, _, _)
cleanupForEach_part000(fonts, i, doc) ==
    IF i > Len(fonts) THEN doc
    ELSE cleanupForEach_part000(fonts, i + 1,
            IF isGoogleFontsLink(fonts[i]) THEN removeById(doc, linkId(fonts[i])) ELSE doc)

cleanupFontStyles_part000(fonts, doc) ==
    cleanupForEach_part000(fonts, 1, removeById(doc, styleId))

----------------------------------------------------------------------------
(* registerQuillFonts, the same in both implementations                    *)

\* fonts.map((f) => f.quillValue)
quillValues(fonts) == [i \in 1..Len(fonts) |-> fonts[i].quillValue]

\* registerQuillFonts that pushes onto the whitelist it finds
registerQuillFonts_append(fonts, q) ==
    [q EXCEPT !.whitelist = @ \o quillValues(fonts), !.registered = TRUE, !.overwrite = TRUE]

\* FontAttributor.whitelist = ...; Quill.register(FontAttributor, true)
registerQuillFonts(fonts, q) ==
    [q EXCEPT !.whitelist = quillValues(fonts), !.registered = TRUE, !.overwrite = TRUE]

----------------------------------------------------------------------------
(* State.                                                                  *)

VARIABLES
    impl,       \* which implementation runs: "fontHelper" or "part_000"
    document,   \* children of document.head created by the pipeline
    quill,      \* formats/font in Quill's registry: whitelist, registration
    lastCall,   \* the most recent direct call of an exported function
    apply,      \* the applyFonts call: pc, fonts, loadedFontDataUris
    loads,      \* per descriptor, the position of its getFontDataUri load
    log,        \* loads settling, registerQuillFonts and injectFontStyles, in order
    comp        \* CustomRichTextControl: effect closure, React state, timers

vars == <<impl, document, quill, lastCall, apply, loads, log, comp>>

Impls == {"fontHelper", "part_000"}

\* const loadedFontDataUris: Record<string, string> = {}
EmptyMap == [n \in {} |-> <<>>]

\* loadedFontDataUris[name] = dataUri
putDataUri(map, name, dataUri) ==
    [n \in DOMAIN map \cup {name} |-> IF n = name THEN dataUri ELSE map[n]]

\* FileReader.readAsDataURL of the blob fetched from url
dataUriOf(url) == <<"data:", ";base64,">> \o url

\* The maps a caller hands to injectFontStyles: for the local file of the
\* direct calls, no entry, its own data URI, or another file's.
DataUriMaps ==
    UNION { [S -> {dataUriOf(LocalTtfUrl), dataUriOf(LocalWoff2Url)}] : S \in SUBSET {"Custom"} }

ElementIds(doc) == { doc[k].id : k \in 1..Len(doc) }

\* A direct call: its arguments, and the ids of the elements it added to and
\* removed from the head.
Call(op, fonts, map, before, after) ==
    [op |-> op, fonts |-> fonts, map |-> map,
     created |-> ElementIds(after) \ ElementIds(before),
     removed |-> ElementIds(before) \ ElementIds(after)]

NoCall == Call("none", <<>>, EmptyMap, <<>>, <<>>)

\* Quill ships formats/font registered with whitelist ['serif', 'monospace'].
QuillInit == [whitelist |-> <<"serif", "monospace">>, registered |-> TRUE, overwrite |-> FALSE]

ApplyIdle == [pc |-> "idle", fonts |-> <<>>, map |-> EmptyMap]

CompInit ==
    [phase |-> "unrendered", isMounted |-> FALSE, awaiting |-> FALSE,
     fontsToLoad |-> <<>>, activeFonts |-> <<>>, closureActiveFonts |-> <<>>,
     fontsLoaded |-> FALSE, fontError |-> FALSE,
     timer50 |-> FALSE, quillInstance |-> FALSE, listener |-> FALSE,
     textChangeHandler |-> FALSE, timers0 |-> 0, late |-> {}]

Init ==
    /\ impl \in Impls
    /\ document = <<>>
    /\ quill = QuillInit
    /\ lastCall = NoCall
    /\ apply = ApplyIdle
    /\ loads = <<>>
    /\ log = <<>>
    /\ comp = CompInit

----------------------------------------------------------------------------
(* Direct calls of the exported DOM functions.                             *)

InjectFontStyles(fonts, map) ==
    /\ document' = IF impl = "fontHelper"
                   THEN injectFontStyles(fonts, map, document)
                   ELSE injectFontStyles_part000(fonts, map, document)
    /\ lastCall' = Call("injectFontStyles", fonts, map, document, document')
    /\ UNCHANGED <<impl, quill, apply, loads, log, comp>>

CleanupFontStyles(fonts) ==
    /\ document' = IF impl = "fontHelper"
                   THEN cleanupFontStyles(fonts, document)
                   ELSE cleanupFontStyles_part000(fonts, document)
    /\ lastCall' = Call("cleanupFontStyles", fonts, EmptyMap, document, document')
    /\ UNCHANGED <<impl, quill, apply, loads, log, comp>>

NextDom ==
    \/ \E fonts \in DomFontSets, map \in DataUriMaps : InjectFontStyles(fonts, map)
    \/ \E fonts \in DomFontSets : CleanupFontStyles(fonts)

SpecDom == Init /\ [][NextDom]_vars

----------------------------------------------------------------------------
(* Direct calls of registerQuillFonts.                                     *)

RegisterQuillFonts(fonts) ==
    /\ quill' = registerQuillFonts(fonts, quill)
    /\ lastCall' = Call("registerQuillFonts", fonts, EmptyMap, document, document)
    /\ UNCHANGED <<impl, document, apply, loads, log, comp>>

NextRegistry == \E fonts \in FontSets : RegisterQuillFonts(fonts)

SpecRegistry == Init /\ [][NextRegistry]_vars

----------------------------------------------------------------------------
(* getFontDataUri: one load per local descriptor, settled by the events    *)
(* of fetch, response.blob() and the FileReader.                           *)

Load(pc, value, cause) == [pc |-> pc, value |-> value, cause |-> cause]

\* if (fontUrl.startsWith('http') || !fontUrl) return null;
returnsNullAtOnce(url) == StartsWith(url, HTTP) \/ url = <<>>

\* if (!fontUrl) return null; if (http && fonts.googleapis.com) return null;
returnsNullAtOnce_part000(url) ==
    \/ url = <<>>
    \/ StartsWith(url, HTTP) /\ Includes(url, <<"fonts", ".", "googleapis", ".", "com">>)

\* fonts.map(async font => { if (font.url && !font.url.startsWith('http')) ... })
\* up to its first await
startLoad(font, atOnce) ==
    IF ~isLocalFontFile(font) THEN Load("skipped", <<>>, "not-local")
    ELSE IF atOnce THEN Load("fulfilled", <<>>, "returned-at-once")
    ELSE Load("fetch", <<>>, "")

\* onFetch with the fetch outside the try block: its failure is not caught
onFetch_uncaught(outcome) ==
    CASE outcome = "throws" -> Load("rejected", <<>>, "fetch-throws")
      [] outcome = "not-ok" -> Load("rejected", <<>>, "not-ok")
      [] OTHER -> Load("blob", <<>>, "")

\* await fetch(fontUrl); if (!response.ok) throw ...; inside try/catch
onFetch(outcome) ==
    CASE outcome = "throws" -> Load("fulfilled", <<>>, "fetch-throws")
      [] outcome = "not-ok" -> Load("fulfilled", <<>>, "not-ok")
      [] OTHER -> Load("blob", <<>>, "")

\* await response.blob(); inside try/catch
onBlob(outcome) ==
    CASE outcome = "throws" -> Load("fulfilled", <<>>, "blob-throws")
      [] OTHER -> Load("read", <<>>, "")

\* return new Promise(...): the promise is returned without await, so its
\* rejection settles getFontDataUri's promise and never enters the catch block
onReader(url, outcome) ==
    CASE outcome = "error" -> Load("rejected", <<>>, "reader-error")
      [] outcome = "not-a-string" -> Load("rejected", <<>>, "not-a-string")
      [] OTHER -> Load("fulfilled", dataUriOf(url), "loaded")

\* recordDataUri keyed by quillValue, while the injector looks up by name
recordDataUri_byQuillValue(map, font, load) ==
    IF load.pc = "fulfilled" /\ load.value # <<>>
    THEN putDataUri(map, font.quillValue, load.value)
    ELSE map

\* const dataUri = await getFontDataUri(font.url);
\* if (dataUri) loadedFontDataUris[font.name] = dataUri;
recordDataUri(map, font, load) ==
    IF load.pc = "fulfilled" /\ load.value # <<>>
    THEN putDataUri(map, font.name, load.value)
    ELSE map

\* promiseAll fulfilled by the first promise that is, as Promise.any would be
promiseAll_any(ls) ==
    IF \E i \in 1..Len(ls) : ls[i].pc = "rejected" THEN "rejected"
    ELSE IF Len(ls) = 0 \/ \E i \in 1..Len(ls) : ls[i].pc \in {"skipped", "fulfilled"}
    THEN "fulfilled"
    ELSE "pending"

\* Promise.all over the mapped promises
promiseAll(ls) ==
    IF \E i \in 1..Len(ls) : ls[i].pc = "rejected" THEN "rejected"
    ELSE IF \A i \in 1..Len(ls) : ls[i].pc \in {"skipped", "fulfilled"} THEN "fulfilled"
    ELSE "pending"

----------------------------------------------------------------------------
(* applyFonts: the statements before and after await Promise.all(...).     *)
(* w = [quill, document, log] is what the statements act on.               *)

Event(ev, at) == [ev |-> ev, at |-> at]

callRegister(fonts, w) ==
    [w EXCEPT !.quill = registerQuillFonts(fonts, w.quill),
              !.log = Append(w.log, Event("registerQuillFonts", 0))]

callInject(fonts, map, w) ==
    [w EXCEPT !.document = injectFontStyles(fonts, map, w.document),
              !.log = Append(w.log, Event("injectFontStyles", 0))]

callInject_part000(fonts, map, w) ==
    [w EXCEPT !.document = injectFontStyles_part000(fonts, map, w.document),
              !.log = Append(w.log, Event("injectFontStyles", 0))]

\* fontHelper.ts: nothing before the await; register, then inject, after it
beforeAwait(fonts, w) == w

afterAwait(fonts, map, w) == callInject(fonts, map, callRegister(fonts, w))

\* part_000: register before the await; inject after it
beforeAwait_part000(fonts, w) == callRegister(fonts, w)

afterAwait_part000(fonts, map, w) == callInject_part000(fonts, map, w)

----------------------------------------------------------------------------
(* CustomRichTextControl: the continuation of loadAndInitializeEditor      *)
(* after await applyFonts(fontsToLoad).                                    *)

\* An effect on React state or on the editor; recorded when it happens after
\* the effect's cleanup ran.
effect(c, name) == IF c.phase = "unmounted" THEN [c EXCEPT !.late = @ \cup {name}] ELSE c

afterApplyFonts(c, pc) ==
    IF ~c.awaiting \/ pc \notin {"resolved", "rejected"} THEN c
    ELSE IF pc = "resolved"
    THEN IF ~c.isMounted THEN [c EXCEPT !.awaiting = FALSE]
         ELSE [effect(c, "setFontsLoaded") EXCEPT
                   !.awaiting = FALSE, !.fontsLoaded = TRUE, !.timer50 = TRUE]
    ELSE IF c.isMounted
         THEN [effect(c, "setFontError") EXCEPT !.awaiting = FALSE, !.fontError = TRUE]
         ELSE [c EXCEPT !.awaiting = FALSE]

----------------------------------------------------------------------------
(* The applyFonts call and the events that settle its loads.               *)

World == [quill |-> quill, document |-> document, log |-> log]

\* What follows once Promise.all has settled (or not yet).
settleAll(fonts, map, ls, w) ==
    IF promiseAll(ls) = "fulfilled"
    THEN [pc |-> "resolved",
          w |-> IF impl = "fontHelper" THEN afterAwait(fonts, map, w)
                ELSE afterAwait_part000(fonts, map, w)]
    ELSE IF promiseAll(ls) = "rejected" THEN [pc |-> "rejected", w |-> w]
    ELSE [pc |-> "awaiting", w |-> w]

\* applyFonts(fonts) up to the await, and past it when nothing is pending.
StartApply(fonts, c) ==
    LET ls == [i \in 1..Len(fonts) |->
                  startLoad(fonts[i],
                            IF impl = "fontHelper"
                            THEN returnsNullAtOnce(fonts[i].url)
                            ELSE returnsNullAtOnce_part000(fonts[i].url))]
        w0 == IF impl = "fontHelper" THEN beforeAwait(fonts, World)
              ELSE beforeAwait_part000(fonts, World)
        s == settleAll(fonts, EmptyMap, ls, w0)
    IN  /\ apply.pc = "idle"
        /\ loads' = ls
        /\ apply' = [pc |-> s.pc, fonts |-> fonts, map |-> EmptyMap]
        /\ quill' = s.w.quill
        /\ document' = s.w.document
        /\ log' = s.w.log
        /\ comp' = afterApplyFonts(c, s.pc)
        /\ UNCHANGED <<impl, lastCall>>

ApplyFonts(fonts) ==
    /\ comp.phase = "unrendered"
    /\ StartApply(fonts, comp)

\* Load i reaches `load`; the continuations it unblocks run with it.
Settle(i, load) ==
    LET ls == [loads EXCEPT ![i] = load]
        map == recordDataUri(apply.map, apply.fonts[i], load)
        w0 == IF load.pc \in {"fulfilled", "rejected"}
              THEN [World EXCEPT !.log = Append(log, Event("settled", i))]
              ELSE World
        s == IF apply.pc = "awaiting" THEN settleAll(apply.fonts, map, ls, w0)
             ELSE [pc |-> apply.pc, w |-> w0]
    IN  /\ loads' = ls
        /\ apply' = [apply EXCEPT !.pc = s.pc, !.map = map]
        /\ quill' = s.w.quill
        /\ document' = s.w.document
        /\ log' = s.w.log
        /\ comp' = afterApplyFonts(comp, s.pc)
        /\ UNCHANGED <<impl, lastCall>>

FetchSettles(i, outcome) ==
    /\ loads[i].pc = "fetch"
    /\ Settle(i, onFetch(outcome))

BlobSettles(i, outcome) ==
    /\ loads[i].pc = "blob"
    /\ Settle(i, onBlob(outcome))

ReaderSettles(i, outcome) ==
    /\ loads[i].pc = "read"
    /\ Settle(i, onReader(apply.fonts[i].url, outcome))

FetchOutcomes == {"throws", "not-ok", "ok"}
BlobOutcomes == {"throws", "ok"}
ReaderOutcomes == {"error", "not-a-string", "loaded"}

LoadEvents ==
    \/ \E i \in 1..Len(loads), outcome \in FetchOutcomes : FetchSettles(i, outcome)
    \/ \E i \in 1..Len(loads), outcome \in BlobOutcomes : BlobSettles(i, outcome)
    \/ \E i \in 1..Len(loads), outcome \in ReaderOutcomes : ReaderSettles(i, outcome)

NextApply ==
    \/ \E fonts \in FontSets : ApplyFonts(fonts)
    \/ LoadEvents

SpecApply == Init /\ [][NextApply]_vars

----------------------------------------------------------------------------
(* CustomRichTextControl: the effect of useEffect(..., []) and its cleanup. *)
(* The component imports applyFonts and cleanupFontStyles of fontHelper.ts. *)

\* The effect runs after the first render: its closure holds that render's
\* activeFonts, the initial state [] of useState<FontInfo[]>([]).
Mount(fontsToLoad) ==
    /\ impl = "fontHelper"
    /\ comp.phase = "unrendered"
    /\ StartApply(fontsToLoad,
                  [comp EXCEPT !.phase = "mounted", !.isMounted = TRUE, !.awaiting = TRUE,
                               !.fontsToLoad = fontsToLoad, !.activeFonts = fontsToLoad,
                               !.closureActiveFonts = comp.activeFonts])

\* ensureDefaultFont() throws a TypeError: defaultFont = fontsToLoad[0] is
\* undefined for an empty descriptor set, and both branches read
\* defaultFont.quillValue.
ensureDefaultFontThrows(c) == c.isMounted /\ c.quillInstance /\ Len(c.fontsToLoad) = 0

\* ensureDefaultFont(): the setSelection and format calls, when it gets to them
ensureDefaultFont(c) ==
    IF ~c.isMounted \/ ~c.quillInstance THEN c
    ELSE IF ensureDefaultFontThrows(c) THEN c
    ELSE effect(c, "format")

\* The callback of setTimeout(..., 50); refSet: quillRef.current is assigned
\* and getEditor() returns the editor. The handler is registered with on(),
\* and stored in quillInstance._textChangeHandler only if the call of
\* ensureDefaultFont() in between returns.
Timer50(refSet) ==
    /\ comp.timer50
    /\ comp' = IF ~comp.isMounted \/ ~refSet THEN [comp EXCEPT !.timer50 = FALSE]
               ELSE LET registered == [effect(comp, "on") EXCEPT
                                          !.timer50 = FALSE, !.quillInstance = TRUE,
                                          !.listener = TRUE]
                    IN  [ensureDefaultFont(registered) EXCEPT
                            !.textChangeHandler = ~ensureDefaultFontThrows(registered)]
    /\ UNCHANGED <<impl, document, quill, lastCall, apply, loads, log>>

\* textChangeHandler(delta, oldDelta, source), called by the editor
TextChange(source) ==
    /\ comp.listener
    /\ comp.timers0 < MaxTimers
    /\ comp' = IF source = "user" THEN [comp EXCEPT !.timers0 = @ + 1] ELSE comp
    /\ UNCHANGED <<impl, document, quill, lastCall, apply, loads, log>>

\* The callback of setTimeout(ensureDefaultFont, 0)
Timer0 ==
    /\ comp.timers0 > 0
    /\ comp' = ensureDefaultFont([comp EXCEPT !.timers0 = @ - 1])
    /\ UNCHANGED <<impl, document, quill, lastCall, apply, loads, log>>

\* The cleanup function the effect returned.
Unmount ==
    /\ comp.phase = "mounted"
    /\ comp' = [comp EXCEPT
                   !.phase = "unmounted",
                   !.isMounted = FALSE,
                   !.listener = IF comp.quillInstance /\ comp.textChangeHandler
                                THEN FALSE ELSE @,
                   !.textChangeHandler = IF comp.quillInstance THEN FALSE ELSE @]
    /\ document' = cleanupFontStyles(comp.closureActiveFonts, document)
    /\ UNCHANGED <<impl, quill, lastCall, apply, loads, log>>

NextMount ==
    \/ \E fonts \in FontSets : Mount(fonts)
    \/ LoadEvents
    \/ \E refSet \in BOOLEAN : Timer50(refSet)
    \/ \E source \in {"user", "api"} : TextChange(source)
    \/ Timer0
    \/ Unmount

InitMount == Init /\ impl = "fontHelper"

SpecMount == InitMount /\ [][NextMount]_vars

----------------------------------------------------------------------------
(* Vocabulary of the properties.                                           *)

Settled(load) == load.pc \in {"skipped", "fulfilled", "rejected"}

FetchFailed(load) == load.cause \in {"fetch-throws", "not-ok"}

Loaded(load) == load.pc = "fulfilled" /\ load.cause = "loaded"

NameSharedAt(fonts, i) == \E j \in 1..Len(fonts) : j # i /\ fonts[j].name = fonts[i].name

StyleElements(doc) == { k \in 1..Len(doc) : doc[k].id = styleId }

\* Text content of the style element, <<>> when there is none.
StyleCss(doc) ==
    IF getElementById(doc, styleId) = 0 THEN <<>>
    ELSE doc[getElementById(doc, styleId)].innerHTML

PickerLabels(css) == { p \in 1..Len(css) : css[p].rule = "picker-label" }

\* Position of the picker-label rule of the k-th descriptor: each descriptor
\* emits exactly one, after its @font-face rule if it has one.
PickerLabelAt(css, k) ==
    CHOOSE p \in PickerLabels(css) : Cardinality({ q \in PickerLabels(css) : q <= p }) = k

\* The @font-face rules emitted for the k-th descriptor: one or none.
FontFaceOf(css, k) ==
    IF Cardinality(PickerLabels(css)) < k THEN <<>>
    ELSE LET p == PickerLabelAt(css, k)
         IN  IF p > 1 /\ css[p - 1].rule = "@font-face" THEN <<css[p - 1]>> ELSE <<>>

Before(ev, p) == \E q \in 1..(p - 1) : log[q] = ev

Invoked(name) == \E p \in 1..Len(log) : log[p].ev = name

----------------------------------------------------------------------------
(* C1 *)

\* C1, as claimed: every load of a local URL that ends in a failure (fetch
\* throws, non-2xx response, blob() fails, FileReader error or non-string
\* result) resolves getFontDataUri's promise to null; it is never rejected.
C1_LoaderNeverRejects ==
    \A i \in 1..Len(loads) :
        (Settled(loads[i]) /\ loads[i].pc # "skipped" /\ ~Loaded(loads[i]))
            => (loads[i].pc = "fulfilled" /\ loads[i].value = <<>>)

----------------------------------------------------------------------------
(* C2 *)

\* What C2 says of the descriptor at i whose fetch failed; own: whether the
\* statements about the map entry and the @font-face rule apply to it.
FetchFailureHandled(i, own) ==
    /\ loads[i].pc = "fulfilled" /\ loads[i].value = <<>>
    /\ own => apply.fonts[i].name \notin DOMAIN apply.map
    /\ (own /\ Invoked("injectFontStyles"))
           => FontFaceOf(StyleCss(document), i) = <<>>
    /\ apply.pc = "rejected" => \E j \in 1..Len(loads) : loads[j].pc = "rejected"
    /\ ((\A j \in 1..Len(loads) : Settled(loads[j]) /\ loads[j].pc # "rejected")
           => /\ apply.pc = "resolved"
              /\ Invoked("registerQuillFonts") /\ Invoked("injectFontStyles")
              /\ quill.whitelist = [k \in 1..Len(apply.fonts) |-> apply.fonts[k].quillValue]
              /\ Cardinality(PickerLabels(StyleCss(document))) = Len(apply.fonts))

----------------------------------------------------------------------------
(* C3 *)

\* C3: in both implementations, whenever injectFontStyles is invoked, every
\* load the call started has settled before it and registerQuillFonts has been
\* invoked (and has returned) before it, in whatever order the loads settle.
C3_InjectAfterLoadsAndRegister ==
    \A p \in 1..Len(log) :
        log[p].ev = "injectFontStyles"
            => /\ \A i \in 1..Len(loads) :
                      loads[i].pc # "skipped" => Before(Event("settled", i), p)
               /\ \E q \in 1..(p - 1) : log[q].ev = "registerQuillFonts"

\* Two loads settled in the reverse of the descriptor order, then injection.
C3_Witness ==
    /\ Len(loads) = 2
    /\ \E p, q \in 1..Len(log) :
          /\ log[p] = Event("settled", 2)
          /\ log[q] = Event("settled", 1)
          /\ p < q
    /\ Invoked("injectFontStyles")

----------------------------------------------------------------------------
(* C4 *)

\* C4, as claimed: applyFonts's promise is settled only when every load it
\* fanned out has settled.
C4_SettlesAfterAllLoads ==
    apply.pc \in {"resolved", "rejected"} => \A i \in 1..Len(loads) : Settled(loads[i])

----------------------------------------------------------------------------
(* C5 *)

IsTtf(url) == ToLowerCase(SplitPop(url, DOT)) = <<"ttf">>

\* What C5 says of the descriptor at i, loaded from its local URL.
OwnDataUriInjected(i) ==
    LET font == apply.fonts[i]
        face == FontFaceOf(StyleCss(document), i)
    IN  /\ font.name \in DOMAIN apply.map
        /\ face # <<>>
        /\ face[1].src = dataUriOf(font.url)
        /\ IsTtf(font.url) => face[1].format = <<"truetype">>

\* C5, as claimed: with quillValue unique across the set, once applyFonts has
\* resolved, every descriptor whose local URL was loaded has a map entry under
\* its name and an @font-face rule whose src is the data URI of its own URL,
\* with format('truetype') for a ttf file.
C5_OwnDataUriOriginal ==
    (apply.pc = "resolved" /\ UniqueQuillValues(apply.fonts))
        => \A i \in 1..Len(loads) : Loaded(loads[i]) => OwnDataUriInjected(i)

\* C5, amended: the same, with the display name unique across the set as well.
C5_OwnDataUri ==
    (apply.pc = "resolved" /\ UniqueQuillValues(apply.fonts) /\ UniqueNames(apply.fonts))
        => \A i \in 1..Len(loads) : Loaded(loads[i]) => OwnDataUriInjected(i)

\* Two local files of different names, the ttf one settled last, both injected.
C5_Witness ==
    /\ apply.pc = "resolved"
    /\ UniqueQuillValues(apply.fonts) /\ UniqueNames(apply.fonts)
    /\ Len(loads) = 2 /\ Loaded(loads[1]) /\ Loaded(loads[2])
    /\ IsTtf(apply.fonts[1].url)
    /\ \E p, q \in 1..Len(log) :
          log[p] = Event("settled", 2) /\ log[q] = Event("settled", 1) /\ p < q
    /\ OwnDataUriInjected(1) /\ OwnDataUriInjected(2)

----------------------------------------------------------------------------
(* C6 *)

AllAsyncSettled ==
    /\ apply.pc \in {"resolved", "rejected"}
    /\ \A i \in 1..Len(loads) : Settled(loads[i])
    /\ ~comp.timer50
    /\ comp.timers0 = 0

\* C6, as claimed: once the component has unmounted and all asynchronous work
\* has settled, the document holds neither the style element nor a link
\* font-link-{quillValue} of a descriptor the component loaded.
C6_NoFontElementsAfterUnmount ==
    (comp.phase = "unmounted" /\ AllAsyncSettled)
        => /\ StyleElements(document) = {}
           /\ \A i \in 1..Len(comp.fontsToLoad) :
                  getElementById(document, linkId(comp.fontsToLoad[i])) = 0

----------------------------------------------------------------------------
(* C7 *)

\* The CSS injectFontStyles generates from its arguments, nothing injected before.
CssOfCall(fonts, map) ==
    StyleCss(IF impl = "fontHelper"
             THEN injectFontStyles(fonts, map, <<>>)
             ELSE injectFontStyles_part000(fonts, map, <<>>))

\* C7: after any sequence of injectFontStyles and cleanupFontStyles calls the
\* document holds at most one element with id quill-dynamic-font-style, and
\* right after injectFontStyles(fonts, map) exactly one, whose content is the
\* CSS of that call's arguments alone, whatever was injected before.
C7_SingletonStyle ==
    /\ Cardinality(StyleElements(document)) <= 1
    /\ lastCall.op = "injectFontStyles"
           => /\ Cardinality(StyleElements(document)) = 1
              /\ StyleCss(document) = CssOfCall(lastCall.fonts, lastCall.map)

\* An injection over an earlier one: the style element was there already, a
\* link of the earlier descriptor set is still in the document.
C7_Witness ==
    /\ lastCall.op = "injectFontStyles"
    /\ styleId \notin lastCall.created
    /\ Len(lastCall.fonts) > 0
    /\ \E k \in 1..Len(document) :
          /\ document[k].tagName = "link"
          /\ \A i \in 1..Len(lastCall.fonts) : linkId(lastCall.fonts[i]) # document[k].id

----------------------------------------------------------------------------
(* C8 *)

LinksWithId(doc, id) == { k \in 1..Len(doc) : doc[k].tagName = "link" /\ doc[k].id = id }

Links(doc) == SelectSeq(doc, LAMBDA e : e.tagName = "link")

\* C8, as claimed (quillValue unique in the set, as the data model requires):
\* right after injectFontStyles of fontHelper.ts, every CSS-service descriptor
\* has exactly one link font-link-{quillValue}, a stylesheet whose href is the
\* descriptor's URL.
C8_LinkHrefOriginal ==
    (impl = "fontHelper" /\ lastCall.op = "injectFontStyles"
                         /\ UniqueQuillValues(lastCall.fonts))
        => \A i \in 1..Len(lastCall.fonts) :
               LET font == lastCall.fonts[i]
                   id == linkId(font)
               IN  isExternalCssLink(font)
                       => /\ Cardinality(LinksWithId(document, id)) = 1
                          /\ document[getElementById(document, id)].rel = "stylesheet"
                          /\ document[getElementById(document, id)].href = font.url

C8_Step ==
    (impl = "fontHelper" /\ lastCall'.op = "injectFontStyles"
                         /\ UniqueQuillValues(lastCall'.fonts))
        => /\ \A i \in 1..Len(lastCall'.fonts) :
                  LET font == lastCall'.fonts[i]
                      id == linkId(font)
                  IN  isExternalCssLink(font)
                          => /\ Cardinality(LinksWithId(document', id)) = 1
                             /\ IF getElementById(document, id) = 0
                                THEN /\ document'[getElementById(document', id)].rel = "stylesheet"
                                     /\ document'[getElementById(document', id)].href = font.url
                                ELSE document'[getElementById(document', id)]
                                         = document[getElementById(document, id)]
           /\ (lastCall.op = "injectFontStyles" /\ lastCall.fonts = lastCall'.fonts)
                  => Links(document') = Links(document)

\* C8, amended: every injectFontStyles call of fontHelper.ts (quillValue unique
\* in the set) leaves, for every CSS-service descriptor, exactly one link
\* font-link-{quillValue}: a stylesheet with the descriptor's URL as href when
\* no element had that id before the call, and otherwise the element that had
\* it, unchanged; a call with the same set as the call before adds no link.
C8_OneLinkPerCssService == [][C8_Step]_vars

\* The call created the link of a CSS-service descriptor, with its URL.
C8_Witness ==
    /\ impl = "fontHelper"
    /\ lastCall.op = "injectFontStyles"
    /\ UniqueQuillValues(lastCall.fonts)
    /\ \E i \in 1..Len(lastCall.fonts) :
          /\ isExternalCssLink(lastCall.fonts[i])
          /\ linkId(lastCall.fonts[i]) \in lastCall.created
          /\ Cardinality(LinksWithId(document, linkId(lastCall.fonts[i]))) = 1
          /\ document[getElementById(document, linkId(lastCall.fonts[i]))].href
                 = lastCall.fonts[i].url

----------------------------------------------------------------------------
(* C9 *)

C9_Step ==
    lastCall'.op = "cleanupFontStyles"
        => /\ StyleElements(document') = {}
           /\ (lastCall.op = "injectFontStyles" /\ lastCall.fonts = lastCall'.fonts)
                  => \A id \in lastCall.created : getElementById(document', id) = 0
           /\ impl = "fontHelper"
                  => \A i \in 1..Len(lastCall'.fonts) :
                         getElementById(document', linkId(lastCall'.fonts[i])) = 0
           /\ (lastCall.op = "cleanupFontStyles" /\ lastCall.fonts = lastCall'.fonts)
                  => document' = document
           /\ document = <<>> => document' = <<>>

\* C9: in both implementations, cleanupFontStyles(fonts) leaves no style
\* element; called right after injectFontStyles(fonts, map) it leaves none of
\* the elements that injection created (in fontHelper.ts no link
\* font-link-{quillValue} of any descriptor of fonts at all); called again with
\* the same fonts, or on a document with nothing injected, it changes nothing.
C9_CleanupRemovesAndIsIdempotent == [][C9_Step]_vars

\* A cleanup that removed the style element and a link.
C9_Witness ==
    /\ lastCall.op = "cleanupFontStyles"
    /\ styleId \in lastCall.removed
    /\ \E i \in 1..Len(lastCall.fonts) : linkId(lastCall.fonts[i]) \in lastCall.removed
    /\ document = <<>>

----------------------------------------------------------------------------
(* C10 *)

ArialDescriptor == FontInfo("Arial", "arial", SystemUrl, "Arial, sans-serif")

\* C10: after registerQuillFonts(fonts), whatever was registered before, the
\* whitelist of the font attributor is the sequence of the quillValues of
\* fonts (["arial"] for the single Arial descriptor) and the attributor is
\* registered with the overwrite flag.
C10_WhitelistIsLastCall ==
    lastCall.op = "registerQuillFonts"
        => /\ Len(quill.whitelist) = Len(lastCall.fonts)
           /\ \A i \in 1..Len(lastCall.fonts) :
                  quill.whitelist[i] = lastCall.fonts[i].quillValue
           /\ quill.registered /\ quill.overwrite
           /\ lastCall.fonts = <<ArialDescriptor>> => quill.whitelist = <<"arial">>

\* The Arial example: the whitelist Quill ships with is gone.
C10_Witness ==
    /\ lastCall.op = "registerQuillFonts"
    /\ lastCall.fonts = <<ArialDescriptor>>
    /\ quill.whitelist = <<"arial">>
    /\ quill.overwrite

----------------------------------------------------------------------------
(* Direct calls of injectFontStyles over every class of URL: the empty URL *)
(* of a system font, a local file, a CSS-service link, and absolute URLs   *)
(* to font files of several extensions and of none.                        *)

RemoteWoff2Url == <<"http", "s://cdn/lato-light", ".", "woff2">>
RemoteEotUrl == <<"http", "://cdn/lato-old", ".", "eot">>

InjectFontPool ==
    { FontInfo("Arial", "arial", SystemUrl, "Arial, sans-serif"),
      FontInfo("Custom", "custom-font", LocalTtfUrl, "Custom"),
      FontInfo("Roboto", "roboto", CdnCssUrl, "Roboto, sans-serif"),
      FontInfo("Lato", "lato", RemoteTtfUrl, "Lato"),
      FontInfo("Lato", "lato-raw", RemoteNoExtUrl, "Lato"),
      FontInfo("Lato Light", "lato-light", RemoteWoff2Url, "Lato Light"),
      FontInfo("Lato Old", "lato-old", RemoteEotUrl, "Lato Old, serif") }

InjectFontSets ==
    { fonts \in UNION { [1..n -> InjectFontPool] : n \in 0..MaxFonts } :
        \A i, j \in 1..Len(fonts) : fonts[i] = fonts[j] => i = j }

\* The data URI of the local file loaded, or not.
InjectDataUriMaps == { EmptyMap, putDataUri(EmptyMap, "Custom", dataUriOf(LocalTtfUrl)) }

NextInject ==
    \E fonts \in InjectFontSets, map \in InjectDataUriMaps : InjectFontStyles(fonts, map)

SpecInject == Init /\ [][NextInject]_vars

----------------------------------------------------------------------------
(* C11 *)

Extension(url) == ToLowerCase(SplitPop(url, DOT))

\* An absolute URL that the CSS-service heuristic does not match.
AbsoluteNotCssService(font) ==
    /\ StartsWith(font.url, HTTP)
    /\ ~ \/ EndsWith(ToLowerCase(font.url), <<".", "css">>)
         \/ Includes(font.url, <<"family=">>)

\* The last call emitted, for its descriptor at i, an @font-face rule of the
\* descriptor's name and URL with one of the given formats, and made no link.
RemoteFaceEmitted(i, formats) ==
    LET font == lastCall.fonts[i]
        face == FontFaceOf(StyleCss(document), i)
    IN  /\ face # <<>>
        /\ face[1].family = <<"'", font.name, "'">>
        /\ face[1].src = font.url
        /\ face[1].format \in formats
        /\ linkId(font) \notin lastCall.created

\* C11, as claimed: after injectFontStyles of fontHelper.ts, every descriptor
\* whose URL starts with http and does not match the CSS-service heuristic has
\* an @font-face rule with that URL as src and a format() from the extension
\* (truetype for ttf, otherwise the extension, or the MIME subtype the
\* extension maps to), and no link was created for it.
C11_RemoteFontFaceOriginal ==
    (impl = "fontHelper" /\ lastCall.op = "injectFontStyles")
        => \A i \in 1..Len(lastCall.fonts) :
               LET font == lastCall.fonts[i]
                   ext == Extension(font.url)
               IN  AbsoluteNotCssService(font)
                       => RemoteFaceEmitted(i,
                              IF ext = <<"ttf">> THEN { <<"truetype">> }
                              ELSE { ext, SplitSecond(getFontMimeTypeFromUrl(font.url), "/") })

\* C11, amended: the same for the descriptors whose URL ends in one of the
\* extensions ttf, otf, woff, woff2, eot (in any case): format() is truetype
\* for ttf, the extension itself for otf, woff and woff2, and
\* vnd.ms-fontobject for eot. For an absolute URL with any other ending
\* neither an @font-face rule nor a link is made.
C11_RemoteFontFace ==
    (impl = "fontHelper" /\ lastCall.op = "injectFontStyles")
        => \A i \in 1..Len(lastCall.fonts) :
               LET font == lastCall.fonts[i]
                   ext == Extension(font.url)
               IN  AbsoluteNotCssService(font)
                       => IF ext \in { <<"otf">>, <<"woff">>, <<"woff2">> }
                          THEN RemoteFaceEmitted(i, { ext })
                          ELSE IF ext = <<"ttf">>
                          THEN RemoteFaceEmitted(i, { <<"truetype">> })
                          ELSE IF ext = <<"eot">>
                          THEN RemoteFaceEmitted(i, { <<"vnd.ms-fontobject">> })
                          ELSE /\ FontFaceOf(StyleCss(document), i) = <<>>
                               /\ linkId(font) \notin lastCall.created

\* A .TTF file and a .woff2 file injected in one call, after a call that left
\* a stylesheet link in the document.
C11_Witness ==
    /\ impl = "fontHelper"
    /\ lastCall.op = "injectFontStyles"
    /\ Len(lastCall.fonts) = 2
    /\ lastCall.fonts[1].url = RemoteTtfUrl
    /\ lastCall.fonts[2].url = RemoteWoff2Url
    /\ FontFaceOf(StyleCss(document), 1) # <<>>
    /\ FontFaceOf(StyleCss(document), 1)[1].format = <<"truetype">>
    /\ FontFaceOf(StyleCss(document), 2) # <<>>
    /\ FontFaceOf(StyleCss(document), 2)[1].format = <<"woff2">>
    /\ \E k \in 1..Len(document) : document[k].tagName = "link"

----------------------------------------------------------------------------
(* C12 *)

\* The injected CSS without its @font-face rules.
QuillCss(css) == SelectSeq(css, LAMBDA r : r.rule # "@font-face")

\* The font-family of a rule is the descriptor's cssFamily: as it stands in
\* fontHelper.ts, quoted and followed by sans-serif in part_000.
UsesCssFamily(family, font) ==
    IF impl = "fontHelper" THEN family = <<font.cssFamily>>
    ELSE \E k \in 1..Len(family) : family[k] = font.cssFamily

\* C12: after injectFontStyles(fonts, map), whatever the URLs of fonts and the
\* entries of map, the CSS of the style element holds, apart from @font-face
\* rules, exactly the picker-label rule and the .ql-font-{quillValue} rule of
\* each descriptor, with its display name as content and its cssFamily as
\* font-family, in the order of fonts; and a descriptor with an empty URL has
\* no @font-face rule and the call created no link for it.
C12_QuillRulesAlways ==
    lastCall.op = "injectFontStyles"
        => LET fonts == lastCall.fonts
               css == StyleCss(document)
               rules == QuillCss(css)
           IN  /\ Len(rules) = 2 * Len(fonts)
               /\ \A i \in 1..Len(fonts) :
                     /\ rules[2 * i - 1].rule = "picker-label"
                     /\ rules[2 * i - 1].key = fonts[i].quillValue
                     /\ rules[2 * i - 1].content = fonts[i].name
                     /\ UsesCssFamily(rules[2 * i - 1].family, fonts[i])
                     /\ rules[2 * i].rule = "ql-font"
                     /\ rules[2 * i].key = fonts[i].quillValue
                     /\ UsesCssFamily(rules[2 * i].family, fonts[i])
                     /\ fonts[i].url = <<>>
                            => /\ FontFaceOf(css, i) = <<>>
                               /\ linkId(fonts[i]) \notin lastCall.created

\* A system font after a local file whose data URI is missing: four rules, no
\* @font-face, in a document where an earlier call left a link.
C12_Witness ==
    /\ lastCall.op = "injectFontStyles"
    /\ Len(lastCall.fonts) = 2
    /\ lastCall.fonts[1].url = LocalTtfUrl
    /\ lastCall.fonts[2].url = SystemUrl
    /\ lastCall.fonts[1].name \notin DOMAIN lastCall.map
    /\ Len(StyleCss(document)) = 4
    /\ StyleCss(document)[3].key = lastCall.fonts[2].quillValue
    /\ \E k \in 1..Len(document) : document[k].tagName = "link"

----------------------------------------------------------------------------
(* C13 *)

\* C13, as claimed: once the cleanup of the effect has run, the continuation
\* of applyFonts and the 50 ms and 0 ms timers have made no setFontsLoaded or
\* setFontError call, no setSelection or format call and no registration of a
\* text-change listener, and no text-change listener is left on the editor,
\* however loading, timers, text changes and the unmount interleave.
C13_NoEffectAfterUnmount ==
    /\ comp.late = {}
    /\ comp.phase = "unmounted" => ~comp.listener

====
